---- MODULE Spec2Model ----
(***************************************************************************)
(* The "solution" Vuex store module (state, getters, actions, mutations)   *)
(* and the TeamSelector component (innerValue get/set, filterMethod) of    *)
(* the invent frontend, as state machines.                                 *)
(*                                                                         *)
(* JavaScript values are modelled as follows.                              *)
(*   - an object is a function from field names to values; {} is the       *)
(*     function with the empty domain and a field that is not in the       *)
(*     domain reads as undefined;                                          *)
(*   - an array is a sequence;                                             *)
(*   - a string that the code inspects character by character is a         *)
(*     sequence of one-character strings;                                  *)
(*   - an evaluation that can throw yields [threw, value]: threw = TRUE    *)
(*     is the TypeError of a property read on undefined or null.           *)
(***************************************************************************)
EXTENDS Integers, Sequences, FiniteSets, TLC

(***************************************************************************)
(* Bounds of the model.                                                    *)
(***************************************************************************)
MaxCalls == 2
MaxLen == 2

Ids == {1, 2}
Countries == {"KE", "UG"}

VARIABLES
  state,          \* the store module's state object
  calls,          \* the dispatched action calls, in dispatch order
  requests,       \* the HTTP requests that are outstanding
  settled,        \* the call that settled last, with what it saw and returned
  lastFulfilled,  \* per action, the response of the call that resolved last
  rendered,       \* outcome of the last read of getSolutionsListWithCountries
  userProfiles,   \* TeamSelector: system/getUserProfilesWithLabel
  value,          \* TeamSelector: the value prop
  chosen,         \* TeamSelector: the labels last assigned to innerValue
  emitted,        \* TeamSelector: the payload of the last 'change' event, if any
  setter,         \* TeamSelector: outcome of the last assignment to innerValue
  query,          \* TeamSelector: the last query given to filterMethod
  filteredOptions \* TeamSelector: data().filteredOptions

storeVars == <<state, calls, requests, settled, lastFulfilled, rendered>>
teamVars == <<userProfiles, value, chosen, emitted, setter, query, filteredOptions>>
vars == <<state, calls, requests, settled, lastFulfilled, rendered,
          userProfiles, value, chosen, emitted, setter, query, filteredOptions>>

(***************************************************************************)
(* JavaScript helpers.                                                     *)
(***************************************************************************)
EmptyObject == [f \in {} |-> 0]

Threw == [threw |-> TRUE, value |-> <<>>]

Returned(v) == [threw |-> FALSE, value |-> v]

Range(s) == {s[i] : i \in DOMAIN s}

SeqsUpTo(S, n) == UNION {[1..k -> S] : k \in 0..n}

\* Array.prototype.find, given the indices of the elements that satisfy the
\* callback: the index of the first of them, 0 (for undefined) if there is none
FindIndex(matching) ==
  IF matching = {} THEN 0
  ELSE CHOOSE i \in matching : \A j \in matching : i <= j

(***************************************************************************)
(* The store module: state.                                                *)
(***************************************************************************)
\* variant: a baseline whose allSolutionsList already has an empty solutions array
cleanStateLoaded == [allSolutionsList |-> [solutions |-> <<>>], allActiveSolutionsList |-> <<>>]

cleanState == [allSolutionsList |-> EmptyObject, allActiveSolutionsList |-> <<>>]

\* what GET /api/portfolio/{id} and GET /api/solution can answer
Solutions == [id : Ids, name : {"s"}, countries : {"--"}]

ActiveSolutions == [id : Ids, countries : Countries]

PortfolioBodies == [solutions : SeqsUpTo(Solutions, MaxLen)]

ActiveBodies == SeqsUpTo(ActiveSolutions, MaxLen)

Actions == {"loadSolutionsList", "loadAllActiveSolutionsList"}

(***************************************************************************)
(* The store module: getters.                                              *)
(***************************************************************************)
\* Array.prototype.map, given the outcome of the callback on each element: the
\* first throw aborts the map, so the map throws exactly when the callback
\* throws on some element
ArrayMap(outcomes) ==
  IF \E i \in DOMAIN outcomes : outcomes[i].threw
  THEN Threw
  ELSE Returned([i \in DOMAIN outcomes |-> outcomes[i].value])

\* variant: { countries: found.countries, ...solution }
SpreadReversed(solution, found) ==
  [f \in DOMAIN solution \cup {"countries"} |->
     IF f \in DOMAIN solution THEN solution[f] ELSE found.countries]

\* { ...solution, countries: found.countries }
Spread(solution, found) ==
  [f \in DOMAIN solution \cup {"countries"} |->
     IF f = "countries" THEN found.countries ELSE solution[f]]

\* variant: find(...)?.countries, a solution without a match is passed through
WithCountriesOptional(st, solution) ==
  LET active == st.allActiveSolutionsList
      i == FindIndex({k \in DOMAIN active : active[k].id = solution.id})
  IN  IF i = 0 THEN Returned(solution) ELSE Returned(Spread(solution, active[i]))

\* the callback of the map: find(...) gives undefined when nothing matches,
\* and undefined.countries throws
WithCountries(st, solution) ==
  LET active == st.allActiveSolutionsList
      i == FindIndex({k \in DOMAIN active : active[k].id = solution.id})
  IN  IF i = 0 THEN Threw ELSE Returned(Spread(solution, active[i]))

getSolutionsListWithCountries(st) ==
  IF "solutions" \notin DOMAIN st.allSolutionsList
  THEN Threw  \* state.allSolutionsList.solutions is undefined: undefined.map throws
  ELSE LET solutions == st.allSolutionsList.solutions
       IN  ArrayMap([i \in DOMAIN solutions |-> WithCountries(st, solutions[i])])

(***************************************************************************)
(* The store module: mutations.                                            *)
(***************************************************************************)
\* variant: keeps the list that was loaded first
PUT_SOLUTION_LIST_once(st, data) ==
  IF "solutions" \in DOMAIN st.allSolutionsList THEN st
  ELSE [st EXCEPT !.allSolutionsList = data]

PUT_SOLUTION_LIST(st, data) == [st EXCEPT !.allSolutionsList = data]

\* variant: appends to the list instead of replacing it
PUT_ALL_ACTIVE_SOLUTIONS_LIST_merge(st, data) ==
  [st EXCEPT !.allActiveSolutionsList = st.allActiveSolutionsList \o data]

PUT_ALL_ACTIVE_SOLUTIONS_LIST(st, data) == [st EXCEPT !.allActiveSolutionsList = data]

commit(st, type, data) ==
  IF type = "PUT_SOLUTION_LIST" THEN PUT_SOLUTION_LIST(st, data)
  ELSE PUT_ALL_ACTIVE_SOLUTIONS_LIST(st, data)

(***************************************************************************)
(* The store module: actions.  A call is at "awaiting" from its            *)
(* this.$axios.get until the request settles; the rest of the action then  *)
(* runs to its end in one step (nothing else of the event loop runs        *)
(* between the resumption after the await and the return).                 *)
(***************************************************************************)
NoSettled == [call |-> 0, failed |-> FALSE, response |-> EmptyObject, returned |-> EmptyObject]

NoResponse == [call |-> 0, response |-> EmptyObject]

Awaiting(c, action) ==
  /\ c \in DOMAIN calls
  /\ calls[c].action = action
  /\ calls[c].pc = "awaiting"
  /\ \E r \in requests : r.call = c

\* variant: a call whose url is already being fetched sends no request
axiosGetShared(action, url) ==
  /\ Len(calls) < MaxCalls
  /\ calls' = Append(calls, [action |-> action, pc |-> "awaiting"])
  /\ requests' = IF \E r \in requests : r.url = url
                 THEN requests
                 ELSE requests \cup {[call |-> Len(calls) + 1, url |-> url]}
  /\ UNCHANGED <<state, settled, lastFulfilled, rendered>>

\* this.$axios.get(url), by a new call of action: every call sends a request
axiosGet(action, url) ==
  /\ Len(calls) < MaxCalls
  /\ calls' = Append(calls, [action |-> action, pc |-> "awaiting"])
  /\ requests' = requests \cup {[call |-> Len(calls) + 1, url |-> url]}
  /\ UNCHANGED <<state, settled, lastFulfilled, rendered>>

\* the action up to its await
loadSolutionsList(id) == axiosGet("loadSolutionsList", <<"/api/portfolio/", id>>)

loadAllActiveSolutionsList == axiosGet("loadAllActiveSolutionsList", <<"api/solution">>)

\* the request of call c succeeded with `response`: commit, then return response.data
Resume(c, type, response) ==
  /\ state' = commit(state, type, response.data)
  /\ settled' = [call |-> c, failed |-> FALSE, response |-> response,
                 returned |-> [value |-> response.data]]
  /\ lastFulfilled' = [lastFulfilled EXCEPT
                         ![calls[c].action] = [call |-> c, response |-> response]]
  /\ calls' = [calls EXCEPT ![c].pc = "fulfilled"]
  /\ requests' = {r \in requests : r.call # c}
  /\ UNCHANGED rendered

loadSolutionsListResumed(c, data) ==
  /\ Awaiting(c, "loadSolutionsList")
  /\ Resume(c, "PUT_SOLUTION_LIST", [data |-> data])

loadAllActiveSolutionsListResumed(c, data) ==
  /\ Awaiting(c, "loadAllActiveSolutionsList")
  /\ Resume(c, "PUT_ALL_ACTIVE_SOLUTIONS_LIST", [data |-> data])

\* variant: a failed request resets the state to its baseline
RejectedResetsState(c) ==
  /\ \E action \in Actions : Awaiting(c, action)
  /\ calls' = [calls EXCEPT ![c].pc = "rejected"]
  /\ requests' = {r \in requests : r.call # c}
  /\ settled' = [call |-> c, failed |-> TRUE, response |-> EmptyObject, returned |-> EmptyObject]
  /\ state' = cleanState
  /\ UNCHANGED <<lastFulfilled, rendered>>

\* the request of call c failed: the await throws, nothing of the action's
\* remainder runs and the call rejects to its caller
Rejected(c) ==
  /\ \E action \in Actions : Awaiting(c, action)
  /\ calls' = [calls EXCEPT ![c].pc = "rejected"]
  /\ requests' = {r \in requests : r.call # c}
  /\ settled' = [call |-> c, failed |-> TRUE, response |-> EmptyObject, returned |-> EmptyObject]
  /\ UNCHANGED <<state, lastFulfilled, rendered>>

\* a component reads the merged getter
ReadSolutionsListWithCountries ==
  /\ rendered' = IF getSolutionsListWithCountries(state).threw THEN "threw" ELSE "returned"
  /\ UNCHANGED <<state, calls, requests, settled, lastFulfilled>>

InitStore ==
  /\ state = cleanState
  /\ calls = <<>>
  /\ requests = {}
  /\ settled = NoSettled
  /\ lastFulfilled = [a \in Actions |-> NoResponse]
  /\ rendered = "none"

InitTeamIdle ==
  /\ userProfiles = <<>>
  /\ value = <<>>
  /\ chosen = <<>>
  /\ emitted = <<>>
  /\ setter = "none"
  /\ query = <<>>
  /\ filteredOptions = <<>>

Init == InitStore /\ InitTeamIdle

Next ==
  \/ \E id \in Ids : loadSolutionsList(id) /\ UNCHANGED teamVars
  \/ loadAllActiveSolutionsList /\ UNCHANGED teamVars
  \/ \E c \in DOMAIN calls : \E data \in PortfolioBodies :
       loadSolutionsListResumed(c, data) /\ UNCHANGED teamVars
  \/ \E c \in DOMAIN calls : \E data \in ActiveBodies :
       loadAllActiveSolutionsListResumed(c, data) /\ UNCHANGED teamVars
  \/ \E c \in DOMAIN calls : Rejected(c) /\ UNCHANGED teamVars
  \/ ReadSolutionsListWithCountries /\ UNCHANGED teamVars

Spec == Init /\ [][Next]_vars

(***************************************************************************)
(* Properties of the store module, checked under Spec.                     *)
(***************************************************************************)
Fulfilled(action) == {c \in DOMAIN calls : calls[c].action = action /\ calls[c].pc = "fulfilled"}

\* the step in which call c of `action` resumes after its await and commits
CommitStep(c, action) ==
  /\ calls[c].action = action
  /\ calls[c].pc = "awaiting"
  /\ calls'[c].pc = "fulfilled"

\* the step in which call c rejects
RejectStep(c) ==
  /\ calls[c].pc = "awaiting"
  /\ calls'[c].pc = "rejected"

FirstActiveWithId(st, id) ==
  LET active == st.allActiveSolutionsList
      k == CHOOSE i \in DOMAIN active :
             active[i].id = id /\ \A j \in DOMAIN active : active[j].id = id => i <= j
  IN  active[k]

ActiveIds(st) == {a.id : a \in Range(st.allActiveSolutionsList)}

SolutionsLoaded(st) == "solutions" \in DOMAIN st.allSolutionsList

\* position i of the getter's result is solution i with the countries of the
\* first active solution of the same id, every other field as in the solution
MergedAt(st, i) ==
  LET solution == st.allSolutionsList.solutions[i]
      result == getSolutionsListWithCountries(st)
  IN  /\ ~result.threw
      /\ Len(result.value) = Len(st.allSolutionsList.solutions)
      /\ result.value[i].countries = FirstActiveWithId(st, solution.id).countries
      /\ DOMAIN result.value[i] = DOMAIN solution \cup {"countries"}
      /\ \A f \in DOMAIN solution \ {"countries"} : result.value[i][f] = solution[f]

\* C1: when a loadSolutionsList call resumes after a successful request and
\* commits, allSolutionsList is exactly the body of that call's response and the
\* value the call returns is that same body.
C1_LoadCommitsAndReturnsBody ==
  [][\A c \in DOMAIN calls :
       CommitStep(c, "loadSolutionsList") =>
         /\ settled'.call = c
         /\ ~settled'.failed
         /\ state'.allSolutionsList = settled'.response.data
         /\ settled'.returned = [value |-> settled'.response.data]]_vars

C1_Witness ==
  /\ settled.call # 0
  /\ ~settled.failed
  /\ calls[settled.call].action = "loadSolutionsList"
  /\ Fulfilled("loadSolutionsList") # {settled.call}
  /\ Len(settled.response.data.solutions) = MaxLen
  /\ state.allSolutionsList = settled.response.data

\* C2 as stated: for every solution whose id is in the active list, the getter
\* returns at that position the merged record, in a result as long as the list.
C2_AsStated ==
  SolutionsLoaded(state) =>
    \A i \in DOMAIN state.allSolutionsList.solutions :
      state.allSolutionsList.solutions[i].id \in ActiveIds(state) => MergedAt(state, i)

\* C2 amended: when the id of every solution is in the active list, the getter
\* returns a list of the same length and order whose record at each position
\* has the countries of the first active solution of that id and every other
\* field of the solution.
C2_MergedWhenAllPresent ==
  (/\ SolutionsLoaded(state)
   /\ \A s \in Range(state.allSolutionsList.solutions) : s.id \in ActiveIds(state))
  => \A i \in DOMAIN state.allSolutionsList.solutions : MergedAt(state, i)

C2_Witness ==
  /\ SolutionsLoaded(state)
  /\ Len(state.allSolutionsList.solutions) = 2
  /\ Len(state.allActiveSolutionsList) = 2
  /\ state.allActiveSolutionsList[1].id = state.allActiveSolutionsList[2].id
  /\ state.allActiveSolutionsList[1].countries # state.allActiveSolutionsList[2].countries
  /\ \A s \in Range(state.allSolutionsList.solutions) : s.id \in ActiveIds(state)
  /\ rendered = "returned"
  /\ ~getSolutionsListWithCountries(state).threw

\* C4: every call that awaits has a request of its own, and once calls of an
\* action have resolved, the action's slice is the response of the one that
\* resolved last, whatever the order in which they were dispatched.
C4_LastResolvedWins ==
  /\ \A c \in DOMAIN calls :
       calls[c].pc = "awaiting" => Cardinality({r \in requests : r.call = c}) = 1
  /\ Cardinality(requests) = Cardinality({c \in DOMAIN calls : calls[c].pc = "awaiting"})
  /\ Fulfilled("loadSolutionsList") # {} =>
       /\ lastFulfilled["loadSolutionsList"].call \in Fulfilled("loadSolutionsList")
       /\ state.allSolutionsList = lastFulfilled["loadSolutionsList"].response.data
  /\ Fulfilled("loadAllActiveSolutionsList") # {} =>
       /\ lastFulfilled["loadAllActiveSolutionsList"].call \in Fulfilled("loadAllActiveSolutionsList")
       /\ state.allActiveSolutionsList = lastFulfilled["loadAllActiveSolutionsList"].response.data

\* two calls of one action were in flight together and the one dispatched
\* first resolved last
C4_Witness ==
  /\ Fulfilled("loadSolutionsList") = {1, 2}
  /\ lastFulfilled["loadSolutionsList"].call = 1
  /\ settled.call = 1
  /\ state.allSolutionsList = settled.response.data
  /\ state.allSolutionsList.solutions # <<>>

\* C5: when the request of a call fails, the call rejects, both slices are what
\* they were before, and no request is issued in its place.
C5_FailureLeavesState ==
  [][\A c \in DOMAIN calls :
       RejectStep(c) =>
         /\ state' = state
         /\ settled'.call = c
         /\ settled'.failed
         /\ requests' = {r \in requests : r.call # c}
         /\ \A d \in DOMAIN calls : d # c => calls'[d] = calls[d]
         /\ Len(calls') = Len(calls)]_vars

C5_Witness ==
  /\ settled.failed
  /\ calls[settled.call].pc = "rejected"
  /\ Fulfilled("loadSolutionsList") # {}
  /\ state.allSolutionsList.solutions # <<>>
  /\ requests = {}

\* C7: when a loaded solution's id is absent from the active list, the getter
\* throws (no result, partial or otherwise), and a read leaves the state as it is.
C7_MissingIdThrows ==
  /\ []((/\ SolutionsLoaded(state)
          /\ \E s \in Range(state.allSolutionsList.solutions) : s.id \notin ActiveIds(state))
         => getSolutionsListWithCountries(state) = Threw)
  /\ [][rendered' = "threw" /\ calls' = calls => state' = state]_vars

C7_Witness ==
  /\ SolutionsLoaded(state)
  /\ Len(state.allSolutionsList.solutions) = 2
  /\ state.allSolutionsList.solutions[1].id \in ActiveIds(state)
  /\ state.allSolutionsList.solutions[2].id \notin ActiveIds(state)
  /\ rendered = "threw"
  /\ getSolutionsListWithCountries(state).threw

\* C8 as stated: as long as one of the two loads has not committed, the getter throws.
C8_AsStated ==
  (Fulfilled("loadSolutionsList") = {} \/ Fulfilled("loadAllActiveSolutionsList") = {})
  => getSolutionsListWithCountries(state).threw

\* C8 amended: as long as loadSolutionsList has not committed the getter throws;
\* once it has and loadAllActiveSolutionsList has not, the getter throws exactly
\* when the committed solutions list is not empty.
C8_UnsafeBeforeBothLoads ==
  /\ Fulfilled("loadSolutionsList") = {} => getSolutionsListWithCountries(state).threw
  /\ (Fulfilled("loadSolutionsList") # {} /\ Fulfilled("loadAllActiveSolutionsList") = {})
       => (getSolutionsListWithCountries(state).threw <=> state.allSolutionsList.solutions # <<>>)

C8_Witness ==
  /\ Fulfilled("loadSolutionsList") # {}
  /\ Fulfilled("loadAllActiveSolutionsList") = {}
  /\ \E c \in DOMAIN calls : calls[c].action = "loadAllActiveSolutionsList" /\ calls[c].pc = "awaiting"
  /\ state.allSolutionsList.solutions # <<>>
  /\ rendered = "threw"
  /\ getSolutionsListWithCountries(state).threw

\* C10: a commit of loadSolutionsList leaves allActiveSolutionsList as it was and
\* a commit of loadAllActiveSolutionsList leaves allSolutionsList as it was, and
\* the committed slice is the new data alone, nothing of its previous value.
C10_SlicesIndependent ==
  [][\A c \in DOMAIN calls :
       /\ CommitStep(c, "loadSolutionsList") =>
            /\ state'.allActiveSolutionsList = state.allActiveSolutionsList
            /\ state'.allSolutionsList = settled'.response.data
       /\ CommitStep(c, "loadAllActiveSolutionsList") =>
            /\ state'.allSolutionsList = state.allSolutionsList
            /\ state'.allActiveSolutionsList = settled'.response.data
            /\ DOMAIN state' = DOMAIN state]_vars

C10_Witness ==
  /\ Fulfilled("loadSolutionsList") # {}
  /\ Fulfilled("loadAllActiveSolutionsList") # {}
  /\ settled.call = 2
  /\ calls[2].action = "loadAllActiveSolutionsList"
  /\ state.allSolutionsList.solutions # <<>>
  /\ Len(state.allActiveSolutionsList) = 1

(***************************************************************************)
(* TeamSelector: the profiles of system/getUserProfilesWithLabel.          *)
(***************************************************************************)
UserIds == {1, 2}
Labels == {"Ann", "Bob"}
Names == {<<>>, <<"A", "b">>, <<"b", "a">>}
Emails == {<<>>, <<"a", "b">>, <<"B", "a">>}
Queries == {<<>>, <<"a">>, <<"A">>, <<"b">>, <<"a", "B">>, <<"b", "b">>}

\* the lists of profiles over P in which no id occurs twice
ProfileLists(P) ==
  {l \in SeqsUpTo(P, Cardinality(UserIds)) : \A i, j \in DOMAIN l : l[i].id = l[j].id => i = j}

\* profiles that differ in what filterMethod reads
NamedProfiles == [id : UserIds, name : Names, email : Emails, label : {"Ann"}]

\* profiles that differ in what innerValue reads: each user has an email of
\* their own, and a label
EmailOf(id) == IF id = 1 THEN <<"a", "b">> ELSE <<"B", "a">>

LabelledProfiles ==
  {[id |-> id, name |-> <<"A", "b">>, email |-> EmailOf(id), label |-> label] :
     id \in UserIds, label \in Labels}

(***************************************************************************)
(* TeamSelector: computed.innerValue.                                      *)
(***************************************************************************)
\* the callback of get(): this.userProfiles.find(p => p.id === userId).label
LabelOf(profiles, userId) ==
  LET i == FindIndex({k \in DOMAIN profiles : profiles[k].id = userId})
  IN  IF i = 0 THEN Threw ELSE Returned(profiles[i].label)

\* get(): this.value.map(userId => ...)
innerValueGet(profiles, ids) == ArrayMap([i \in DOMAIN ids |-> LabelOf(profiles, ids[i])])

\* the callback of set(value): this.userProfiles.find(p => p.label === label).id
IdOf(profiles, label) ==
  LET i == FindIndex({k \in DOMAIN profiles : profiles[k].label = label})
  IN  IF i = 0 THEN Threw ELSE Returned(profiles[i].id)

\* variant: labels of no profile are left out
idArraySkipping(profiles, labels) ==
  LET known == SelectSeq(labels, LAMBDA label : ~IdOf(profiles, label).threw)
  IN  ArrayMap([i \in DOMAIN known |-> IdOf(profiles, known[i])])

\* the idArray of set(value): value.map(label => ...)
idArray(profiles, labels) == ArrayMap([i \in DOMAIN labels |-> IdOf(profiles, labels[i])])

\* the select assigns labels to innerValue: set(value) up to this.$emit('change', idArray)
innerValueSet(labels) ==
  /\ chosen' = labels
  /\ LET ids == idArray(userProfiles, labels)
     IN  IF ids.threw
         THEN setter' = "threw" /\ UNCHANGED emitted
         ELSE setter' = "emitted" /\ emitted' = <<ids.value>>
  /\ UNCHANGED <<userProfiles, value, query, filteredOptions>>

\* the parent passes another value prop
valueProp(ids) ==
  /\ value' = ids
  /\ UNCHANGED <<userProfiles, chosen, emitted, setter, query, filteredOptions>>

(***************************************************************************)
(* TeamSelector: methods.                                                  *)
(***************************************************************************)
LowerChar(ch) == IF ch = "A" THEN "a" ELSE IF ch = "B" THEN "b" ELSE ch

toLowerCase(str) == [i \in DOMAIN str |-> LowerChar(str[i])]

\* variant: String.prototype.includes
includes(str, prefix) ==
  \E k \in 0..(Len(str) - Len(prefix)) : \A i \in DOMAIN prefix : str[k + i] = prefix[i]

\* String.prototype.startsWith
startsWith(str, prefix) ==
  /\ Len(prefix) <= Len(str)
  /\ \A i \in DOMAIN prefix : str[i] = prefix[i]

\* the empty string (like null and undefined) is falsy
Truthy(str) == str # <<>>

filter(val, q) == startsWith(toLowerCase(val), toLowerCase(q))

filterMethod(q) ==
  /\ query' = q
  /\ IF Truthy(q)
     THEN LET Keep(p) ==
                \/ filter(IF Truthy(p.name) THEN p.name ELSE p.email, q)
                \/ (IF Truthy(p.email) THEN filter(p.email, q) ELSE FALSE)
          IN  filteredOptions' = SelectSeq(userProfiles, Keep)
     ELSE filteredOptions' = <<>>
  /\ UNCHANGED <<userProfiles, value, chosen, emitted, setter>>

(***************************************************************************)
(* The component with its filter in use.                                   *)
(***************************************************************************)
InitFilter ==
  /\ InitStore
  /\ userProfiles \in ProfileLists(NamedProfiles)
  /\ value = <<>>
  /\ chosen = <<>>
  /\ emitted = <<>>
  /\ setter = "none"
  /\ query = <<>>
  /\ filteredOptions = <<>>

NextFilter == \E q \in Queries : filterMethod(q) /\ UNCHANGED storeVars

SpecFilter == InitFilter /\ [][NextFilter]_vars

(***************************************************************************)
(* The component with its selection in use.                                *)
(***************************************************************************)
InitTeam ==
  /\ InitStore
  /\ userProfiles \in ProfileLists(LabelledProfiles)
  /\ value \in SeqsUpTo(UserIds, MaxLen)
  /\ chosen = <<>>
  /\ emitted = <<>>
  /\ setter = "none"
  /\ query = <<>>
  /\ filteredOptions = <<>>

NextTeam ==
  \/ \E labels \in SeqsUpTo(Labels, MaxLen) : innerValueSet(labels) /\ UNCHANGED storeVars
  \/ \E ids \in SeqsUpTo(UserIds, MaxLen) : valueProp(ids) /\ UNCHANGED storeVars

SpecTeam == InitTeam /\ [][NextTeam]_vars

(***************************************************************************)
(* Properties of TeamSelector.                                             *)
(***************************************************************************)
ProfileIds == {p.id : p \in Range(userProfiles)}

ProfileLabels == {p.label : p \in Range(userProfiles)}

\* C3 as stated: when every id of value is in the profile list, the labels that
\* innerValue get gives, assigned back to innerValue, emit value itself.
C3_RoundTrip ==
  (/\ Range(value) \subseteq ProfileIds
   /\ ~innerValueGet(userProfiles, value).threw
   /\ chosen = innerValueGet(userProfiles, value).value
   /\ setter = "emitted")
  => emitted = <<value>>

SameLetter(a, b) == a = b \/ {a, b} = {"a", "A"} \/ {a, b} = {"b", "B"}

PrefixIgnoringCase(q, str) ==
  /\ Len(q) <= Len(str)
  /\ \A i \in 1..Len(q) : SameLetter(q[i], str[i])

\* C6: after filterMethod, filteredOptions is empty for the empty query and
\* otherwise holds, in list order, exactly the profiles whose name or email
\* begins with the query, letter case ignored.
C6_FilterIsPrefixMatch ==
  LET Begins(p) == PrefixIgnoringCase(query, p.name) \/ PrefixIgnoringCase(query, p.email)
  IN  /\ query = <<>> => filteredOptions = <<>>
      /\ query # <<>> => filteredOptions = SelectSeq(userProfiles, Begins)

\* a query that one profile matches in another letter case and that occurs only
\* in the middle of the other profile's name
C6_Witness ==
  /\ query = <<"a">>
  /\ Len(userProfiles) = 2
  /\ userProfiles[1].name = <<"b", "a">>
  /\ userProfiles[1].email = <<"B", "a">>
  /\ userProfiles[2].name = <<"A", "b">>
  /\ filteredOptions = <<userProfiles[2]>>

\* C9: innerValue get throws when value holds an id of no profile; assigning
\* labels of which one is no profile's label throws and emits nothing, so the
\* last 'change' event stays what it was.
C9_UnguardedLookups ==
  /\ [](/\ ~(Range(value) \subseteq ProfileIds) => innerValueGet(userProfiles, value) = Threw
        /\ ~(Range(chosen) \subseteq ProfileLabels) => setter = "threw")
  /\ [][~(Range(chosen') \subseteq ProfileLabels) => emitted' = emitted]_vars

C9_Witness ==
  /\ ~(Range(value) \subseteq ProfileIds)
  /\ innerValueGet(userProfiles, value).threw
  /\ Len(chosen) = 2
  /\ chosen[1] \in ProfileLabels
  /\ chosen[2] \notin ProfileLabels
  /\ setter = "threw"
  /\ emitted # <<>>

====
